---- MODULE Spec2Model ----
(***************************************************************************)
(* Model of comp-quicktool-rs: the configuration overlay loader            *)
(* (src/src/config.rs) and the two autotest runners                        *)
(* (src/src/tools/autotest.rs).                                            *)
(*                                                                         *)
(* Strings are sequences of one-character strings, so that trim,           *)
(* starts_with, contains and splitn are computed as the code computes      *)
(* them.  Long literals that the code never inspects (fixed paths, the     *)
(* parameters template) are written as a single element.                   *)
(***************************************************************************)
EXTENDS Integers, Sequences, FiniteSets, TLC

VARIABLES
    \* ---- ClassConfig::load_bash_config ----
    file,           \* the overlay file: NoFile, or the sequence of its lines
    lineNo,         \* index of the next line reader.lines() yields
    loadPc,         \* "call" | "reading" | "ok" | "ioerr" | "panic"
    custom_config,  \* ClassConfig.custom_config : HashMap<String, String>
    config_before,  \* custom_config as it was when load_bash_config was called
    \* ---- run_autotest / run_autotest_stage ----
    tool,           \* binary_name matched in run_test
    args,           \* passed_args
    pc,             \* position of the runner
    idx, compiler, stage_prefix, command_args,
    invocations,    \* the child processes issued so far, in order
    output,         \* what test_command.output() gave
    run_labels,     \* the filtered labels
    child,          \* what command.status() gave for the inherited-stream child
    result,         \* how the run ended
    \* ---- the process ----
    env_PATH,       \* PATH in the calling process's own environment
    cli,            \* what cli::run did once run_test returned
    first_load      \* the mapping an earlier load_bash_config call left

loadVars == <<file, lineNo, loadPc, custom_config, config_before>>
runVars  == <<tool, args, pc, idx, compiler, stage_prefix, command_args,
              invocations, output, run_labels, child, result>>
procVars == <<env_PATH, cli, first_load>>
vars     == <<file, lineNo, loadPc, custom_config, config_before,
              tool, args, pc, idx, compiler, stage_prefix, command_args,
              invocations, output, run_labels, child, result,
              env_PATH, cli, first_load>>

(***************************************************************************)
(* Bounds                                                                  *)
(***************************************************************************)
MaxLines  == 3    \* lines in an overlay file
MaxArgs   == 4    \* tokens passed to a runner
MaxLabels == 3    \* elements of a discovered labels array
MaxCliArgs == 2   \* tokens passed to a runner where the process's
                  \* environment and config.sh are drawn as well

(***************************************************************************)
(* str helpers                                                             *)
(***************************************************************************)
None   == [kind |-> "None", val |-> <<>>]
Some(x) == [kind |-> "Some", val |-> x]

\* all sequences over S of length at most n
SeqsUpTo(S, n) == UNION {[1..k -> S] : k \in 0..n}

lower(c) == IF c = "W" THEN "w" ELSE c

starts_with_nocase(s, p) ==
    Len(p) <= Len(s) /\ \A i \in 1..Len(p) : lower(s[i]) = lower(p[i])

\* str::starts_with
starts_with(s, p) ==
    Len(p) <= Len(s) /\ SubSeq(s, 1, Len(p)) = p

\* str::ends_with
ends_with(s, p) ==
    Len(p) <= Len(s) /\ SubSeq(s, Len(s) - Len(p) + 1, Len(s)) = p

\* str::contains
contains(s, p) ==
    \E i \in 1..(Len(s) - Len(p) + 1) : SubSeq(s, i, i + Len(p) - 1) = p

\* char::is_whitespace, on the characters the model uses
is_whitespace(c) == c \in {" ", "\t"}

\* str::trim
trim(s) ==
    LET keep == {i \in 1..Len(s) : ~is_whitespace(s[i])}
    IN  IF keep = {} THEN <<>>
        ELSE LET lo == CHOOSE i \in keep : \A j \in keep : i <= j
                 hi == CHOOSE i \in keep : \A j \in keep : j <= i
             IN  SubSeq(s, lo, hi)

\* a line that BufRead::lines cannot decode carries this element
InvalidByte == "\\xFF"

\* io::Lines::next: Err(InvalidData) on a line that is not valid UTF-8
is_valid_utf8(line) == \A i \in 1..Len(line) : line[i] # InvalidByte

(***************************************************************************)
(* ClassConfig::load_bash_config and parse_variable_assignment             *)
(***************************************************************************)
NoFile == [exists |-> FALSE, lines |-> <<>>]
FileOf(ls) == [exists |-> TRUE, lines |-> ls]

is_skipped_no_export(line) ==
    \/ trim(line) = <<>>
    \/ starts_with(trim(line), <<"#">>)
    \/ starts_with(trim(line), <<"u","n","s","e","t"," ">>)
    \/ starts_with(line, <<"#","!","/">>)

\* the skip condition of the loop (config.rs:59-63)
is_skipped(line) ==
    \/ trim(line) = <<>>
    \/ starts_with(trim(line), <<"#">>)
    \/ starts_with(trim(line), <<"u","n","s","e","t"," ">>)
    \/ starts_with(trim(line), <<"e","x","p","o","r","t"," ">>)
    \/ starts_with(line, <<"#","!","/">>)

\* is the value wrapped in quotes, as the code tests it (config.rs:85-86)
is_quoted(value) ==
    \/ (starts_with(value, <<"'">>) /\ ends_with(value, <<"'">>))
    \/ (starts_with(value, <<"\"">>) /\ ends_with(value, <<"\"">>))

\* line.splitn(2, '='), trim, and quote stripping.  value[1..len-1] panics
\* when the value is one lone quote character (begin 1 > end 0).
parse_variable_assignment(line) ==
    LET eqs == {i \in 1..Len(line) : line[i] = "="}
    IN  IF eqs = {} THEN [kind |-> "None", name |-> <<>>, value |-> <<>>]
        ELSE LET e     == CHOOSE i \in eqs : \A j \in eqs : i <= j
                 name  == trim(SubSeq(line, 1, e - 1))
                 value == trim(SubSeq(line, e + 1, Len(line)))
             IN  IF is_quoted(value)
                 THEN IF Len(value) < 2
                      THEN [kind |-> "Panic", name |-> name, value |-> value]
                      ELSE [kind |-> "Some", name |-> name,
                            value |-> SubSeq(value, 2, Len(value) - 1)]
                 ELSE [kind |-> "Some", name |-> name, value |-> value]

insert_concat(m, k, v) ==
    [x \in DOMAIN m \cup {k} |->
        IF x = k THEN (IF k \in DOMAIN m THEN m[k] \o v ELSE v) ELSE m[x]]

insert_keep_first(m, k, v) ==
    [x \in DOMAIN m \cup {k} |-> IF x \in DOMAIN m THEN m[x] ELSE v]

\* HashMap::insert: overwrite by key
insert(m, k, v) ==
    [x \in DOMAIN m \cup {k} |-> IF x = k THEN v ELSE m[x]]

\* HashMap::get
get_custom_config(m, k) ==
    IF k \in DOMAIN m THEN Some(m[k]) ELSE None

\* ---- the overlay lines the model draws files from ----
L_a1      == <<"a","=","1">>
L_a2sp    == <<" ","a"," ","="," ","2"," ">>
L_aq      == <<"a","=","'","x","'">>
L_bdq     == <<"b","=","\"","y"," ","\"">>
L_beq     == <<"b","=","c","=","d">>
L_amis    == <<"a","=","'","x","\"">>
L_alone   == <<"b","=","'">>
L_aempty  == <<"a","=">>
L_blank   == <<>>
L_ws      == <<" ","\t">>
L_comment == <<" ","#","a","=","3">>
L_shebang == <<"#","!","/","b","=","1">>
L_export  == <<"e","x","p","o","r","t"," ","a","=","4">>
L_unset   == <<" ","u","n","s","e","t"," ","a","=">>
L_noeq    == <<"a"," ","b">>
L_exportk == <<"e","x","p","o","r","t","=","5">>
L_bad     == <<"b","=",InvalidByte>>

SampleLines ==
    {L_a1, L_a2sp, L_aq, L_bdq, L_beq, L_amis, L_alone, L_aempty, L_blank,
     L_ws, L_comment, L_shebang, L_export, L_unset, L_noeq, L_exportk, L_bad}

K_a == <<"a">>
K_b == <<"b">>

EmptyMap == [x \in {} |-> <<>>]

InitialConfigs ==
    {EmptyMap, [x \in {K_a, K_b} |-> <<"o","l","d">>]}

LoaderInputs ==
    /\ file \in {NoFile} \cup {FileOf(ls) : ls \in SeqsUpTo(SampleLines, MaxLines)}
    /\ lineNo = 0
    /\ loadPc = "call"
    /\ custom_config \in InitialConfigs
    /\ config_before = custom_config

\* File::open(file_path)? (config.rs:52-53)
OpenFile ==
    /\ loadPc = "call"
    /\ IF ~file.exists
       THEN /\ loadPc' = "ioerr"
            /\ lineNo' = lineNo
       ELSE /\ loadPc' = "reading"
            /\ lineNo' = 1
    /\ UNCHANGED <<file, custom_config, config_before>>

\* one iteration of `for line in reader.lines()` (config.rs:55-72)
ReadLine ==
    /\ loadPc = "reading"
    /\ lineNo <= Len(file.lines)
    /\ LET line == file.lines[lineNo]
       IN  IF ~is_valid_utf8(line)
           THEN /\ loadPc' = "ioerr"
                /\ UNCHANGED <<lineNo, custom_config>>
           ELSE IF is_skipped(line)
           THEN /\ lineNo' = lineNo + 1
                /\ UNCHANGED <<loadPc, custom_config>>
           ELSE LET p == parse_variable_assignment(line)
                IN  CASE p.kind = "Panic" ->
                          /\ loadPc' = "panic"
                          /\ UNCHANGED <<lineNo, custom_config>>
                      [] p.kind = "None" ->
                          /\ lineNo' = lineNo + 1
                          /\ UNCHANGED <<loadPc, custom_config>>
                      [] p.kind = "Some" ->
                          /\ custom_config' = insert(custom_config, p.name, p.value)
                          /\ lineNo' = lineNo + 1
                          /\ UNCHANGED loadPc
    /\ UNCHANGED <<file, config_before>>

\* the iterator is exhausted: Ok(()) (config.rs:74)
EndOfFile ==
    /\ loadPc = "reading"
    /\ lineNo > Len(file.lines)
    /\ loadPc' = "ok"
    /\ UNCHANGED <<file, lineNo, custom_config, config_before>>

\* no call of load_bash_config has returned yet
NoFirstLoad == [done |-> FALSE, map |-> EmptyMap]

\* load_bash_config is called once more on the same file and the same
\* ClassConfig, after a call that returned (config.rs:51)
LoadAgain ==
    /\ loadPc \in {"ok", "ioerr"}
    /\ ~first_load.done
    /\ first_load' = [done |-> TRUE, map |-> custom_config]
    /\ loadPc' = "call"
    /\ lineNo' = 0
    /\ config_before' = custom_config
    /\ UNCHANGED <<file, custom_config>>

(***************************************************************************)
(* run_autotest_stage and run_autotest                                      *)
(***************************************************************************)
T_1091  == <<"1","0","9","1">>
T_dcc   == <<"d","c","c">>
T_gcc   == <<"g","c","c">>
T_clang == <<"c","l","a","n","g">>
T_w1    == <<"w","1">>
T_x     == <<"x">>
T_fc    == <<"f",".","c">>

\* the tokens the model draws argument lists from
Tokens == {T_1091, T_gcc, T_w1, T_x, T_fc}

K_session == <<"public_html_session_directory">>

\* the overlay mappings a run starts from, after run_test loaded config.sh
RunConfigs == {EmptyMap, [x \in {K_session} |-> <<"/","w">>]}

\* let compiler_options = ["dcc", "gcc", "clang"]
compiler_options == {T_dcc, T_gcc, T_clang}

\* Path::join on a relative component
path_join(base, rel) ==
    IF base = <<>> THEN rel
    ELSE IF base[Len(base)] = "/" THEN base \o rel
    ELSE base \o <<"/">> \o rel

\* config.get_custom_config("public_html_session_directory").unwrap_or(&String::new())
session_dir(cfg) ==
    LET o == get_custom_config(cfg, K_session)
    IN  IF o.kind = "Some" THEN o.val ELSE <<>>

activities_dir(cfg) == path_join(session_dir(cfg), <<"activities">>)

autotest_script == <<"/usr/local/share/autotest/autotest.py">>

\* .join("public/_infra/extern/c_check/c_check.py"), written as the
\* directory part and the file name so that Path::parent can take it apart
c_check_path(cfg) ==
    path_join(path_join(session_dir(cfg), <<"public/_infra/extern/c_check">>),
              <<"c_check.py">>)

\* Path::parent: the path without its last component
path_parent(p) ==
    LET slashes == {i \in 1..Len(p) : p[i] = "/"}
    IN  IF p = <<>> THEN None
        ELSE IF slashes = {} THEN Some(<<>>)
        ELSE Some(SubSeq(p, 1, (CHOOSE i \in slashes : \A j \in slashes : j <= i) - 1))

\* OsStr::to_string_lossy: undecodable bytes become U+FFFD
to_string_lossy(x) ==
    [i \in 1..Len(x) |-> IF x[i] = InvalidByte THEN "U+FFFD" ELSE x[i]]

extend_path_prepend(original_path, dir) ==
    LET o == IF original_path.kind = "Some"
             THEN to_string_lossy(original_path.val) ELSE <<>>
    IN  IF dir.kind = "Some"
        THEN to_string_lossy(dir.val) \o (IF o # <<>> THEN <<":">> ELSE <<>>) \o o
        ELSE o

\* extend_path_with_dir (autotest.rs:257-272)
extend_path_with_dir(original_path, dir) ==
    LET o == IF original_path.kind = "Some"
             THEN to_string_lossy(original_path.val) ELSE <<>>
    IN  IF dir.kind = "Some"
        THEN (IF o # <<>> THEN o \o <<":">> ELSE o) \o to_string_lossy(dir.val)
        ELSE o

\* .env("PATH", extend_path_with_dir(env::var_os("PATH"), c_check_path.parent()))
child_path(env, cfg) ==
    extend_path_with_dir(env, path_parent(c_check_path(cfg)))

\* what env::var_os("PATH") can give: unset, empty, or a search path
EnvPaths == {None, Some(<<>>), Some(<<"/","b">>)}

\* the format! of the parameters string
parameters(comp, cfg) ==
    <<"default_compilers = {'c': [['">> \o comp
      \o <<"', '-Werror']]} default_checkers = {'c': [['python3', '">>
      \o c_check_path(cfg) \o <<"']]}">>

\* Command::new("python3") ... .arg(&parameters)
base_argv(comp, cfg) ==
    << <<"python3">>, <<"-I">>, autotest_script,
       <<"--exercise_directory">>, activities_dir(cfg),
       <<"--parameters">>, parameters(comp, cfg) >>

F_print == <<"--print_test_names">>
F_l     == <<"-l">>

\* test_command (autotest.rs:160-175)
discover_argv(comp, cfg, tail) ==
    base_argv(comp, cfg) \o tail \o <<F_print>>

execute_argv_no_tail(comp, cfg, tail, labels) ==
    base_argv(comp, cfg) \o <<F_l>> \o labels

\* final_command (autotest.rs:222-236)
execute_argv(comp, cfg, tail, labels) ==
    base_argv(comp, cfg) \o tail \o <<F_l>> \o labels

\* ---- exit statuses ----
ExitCode(n) == [kind |-> "code", code |-> n]
Signaled    == [kind |-> "signal", code |-> 9]
ExitStatuses == {ExitCode(0), ExitCode(1), ExitCode(3), Signaled}

status_success_always(st) == TRUE

\* ExitStatus::success
status_success(st) == st.kind = "code" /\ st.code = 0

exit_code_generic(st) == 1

\* status.code().unwrap_or(1)
exit_code_or_1(st) == IF st.kind = "code" THEN st.code ELSE 1

\* what command.status() can give
ChildOutcomes ==
    {[spawned |-> FALSE, status |-> ExitCode(0)]}
      \cup {[spawned |-> TRUE, status |-> st] : st \in ExitStatuses}

\* ---- serde_json::Value ----
\* n: the number, s: the string, a: the array's elements, o: the object's
\* entries (key, value), keys unique
JNull    == [t |-> "null",   n |-> 0, s |-> <<>>, a |-> <<>>, o |-> <<>>]
JNum(x)  == [t |-> "number", n |-> x, s |-> <<>>, a |-> <<>>, o |-> <<>>]
JStr(x)  == [t |-> "string", n |-> 0, s |-> x,    a |-> <<>>, o |-> <<>>]
JArr(x)  == [t |-> "array",  n |-> 0, s |-> <<>>, a |-> x,    o |-> <<>>]
JObj(x)  == [t |-> "object", n |-> 0, s |-> <<>>, a |-> <<>>, o |-> x]
Entry(k, x) == [k |-> k, val |-> x]

LB_w1a == <<"w","1","a">>
LB_w1  == <<"w","1">>
LB_W1a == <<"W","1","a">>

\* what a labels array may hold: strings, and a value that is not a string
LabelElems == {JStr(LB_w1a), JStr(LB_w1), JStr(LB_W1a), JNum(7)}

LabelArrays == SeqsUpTo(LabelElems, MaxLabels)

WithLabels(x) == JObj(<<Entry("labels", x)>>)

\* the values serde_json::from_str may return for the discovery output
JsonSamples ==
    {JArr(<<WithLabels(JArr(a))>>) : a \in LabelArrays}
      \cup { JNum(5),
             WithLabels(JArr(<<JStr(LB_w1a)>>)),
             JArr(<<>>),
             JArr(<<JNum(5)>>),
             JArr(<<JObj(<<Entry("other", JArr(<<JStr(LB_w1a)>>))>>)>>),
             JArr(<<JArr(<<JStr(LB_w1a)>>)>>),
             JArr(<<WithLabels(JStr(LB_w1a))>>),
             JArr(<<WithLabels(JNull)>>),
             JArr(<<WithLabels(WithLabels(JArr(<<JStr(LB_w1a)>>)))>>),
             JArr(<<WithLabels(JArr(<<JStr(LB_w1a)>>)), JNum(5)>>),
             JArr(<<JNum(5), WithLabels(JArr(<<JStr(LB_w1a)>>))>>) }

Unparseable == [parsed |-> FALSE, json |-> JNull]
Parsed(j)   == [parsed |-> TRUE, json |-> j]

\* what test_command.output() can give
DiscoverOutputs ==
    {[spawned |-> FALSE, status |-> ExitCode(0), stdout |-> Unparseable]}
      \cup {[spawned |-> TRUE, status |-> ExitCode(0), stdout |-> so] :
              so \in {Unparseable} \cup {Parsed(j) : j \in JsonSamples}}
      \cup {[spawned |-> TRUE, status |-> st, stdout |-> so] :
              st \in ExitStatuses \ {ExitCode(0)},
              so \in {Unparseable,
                      Parsed(JArr(<<WithLabels(JArr(<<JStr(LB_w1a)>>))>>))}}

\* Value::get(usize): arrays only
json_get_index(j, i) ==
    IF j.t = "array" /\ i + 1 <= Len(j.a) THEN Some(j.a[i + 1]) ELSE None

\* Value::get(&str): objects only
json_get_key(j, k) ==
    IF j.t = "object" /\ \E e \in 1..Len(j.o) : j.o[e].k = k
    THEN Some(j.o[CHOOSE e \in 1..Len(j.o) : j.o[e].k = k].val)
    ELSE None

lookup_labels_any_element(j) ==
    IF j.t = "array"
         /\ \E i \in 1..Len(j.a) : json_get_key(j.a[i], "labels").kind = "Some"
    THEN json_get_key(j.a[CHOOSE i \in 1..Len(j.a) :
                              json_get_key(j.a[i], "labels").kind = "Some"],
                      "labels")
    ELSE None

\* json_value.get(0).and_then(|obj| obj.get("labels")) (autotest.rs:196-198)
lookup_labels(j) ==
    LET e0 == json_get_index(j, 0)
    IN  IF e0.kind = "Some" THEN json_get_key(e0.val, "labels") ELSE None

\* tests.as_array().unwrap_or(&vec![])
as_array_or_empty(j) == IF j.t = "array" THEN j.a ELSE <<>>

RECURSIVE filter_iter(_, _)
\* .iter().filter_map(as_str).filter(starts_with(stage_prefix)).collect()
filter_iter(a, prefix) ==
    IF a = <<>> THEN <<>>
    ELSE LET h == Head(a)
             r == filter_iter(Tail(a), prefix)
         IN  IF h.t = "string" /\ starts_with(h.s, prefix)
             THEN <<h.s>> \o r
             ELSE r

\* run_labels (autotest.rs:205-211)
filter_labels(tests, prefix) == filter_iter(as_array_or_empty(tests), prefix)

\* ---- results ----
Running   == [kind |-> "Running", err |-> "",  code |-> 0]
Ok        == [kind |-> "Ok",      err |-> "",  code |-> 0]
Err(e)    == [kind |-> "Err",     err |-> e,   code |-> 0]
Exited(c) == [kind |-> "Exit",    err |-> "",  code |-> c]

NoOutput == [spawned |-> FALSE, status |-> ExitCode(0), stdout |-> Unparseable]
NoChild  == [spawned |-> FALSE, status |-> ExitCode(0)]

\* run_and_propagate_exit_status (autotest.rs:276-286)
run_and_propagate_exit_status(ch) ==
    IF ~ch.spawned THEN Err("SpawnError")
    ELSE IF ~status_success(ch.status) THEN Exited(exit_code_or_1(ch.status))
    ELSE Ok

select_compiler_anywhere(a) ==
    IF \E i \in 1..Len(a) : a[i] \in compiler_options
    THEN LET i == CHOOSE i \in 1..Len(a) : a[i] \in compiler_options
         IN  [compiler |-> a[i],
              remaining |-> SubSeq(a, 1, i - 1) \o SubSeq(a, i + 1, Len(a))]
    ELSE [compiler |-> T_clang, remaining |-> a]

\* select_compiler (autotest.rs:242-255)
select_compiler(a) ==
    IF a # <<>>
    THEN IF a[1] \in compiler_options
         THEN [compiler |-> a[1], remaining |-> Tail(a)]
         ELSE [compiler |-> T_clang, remaining |-> a]
    ELSE [compiler |-> T_clang, remaining |-> <<>>]

usage_too_few_one(a, i) == Len(a) < i + 1

\* args.len() < idx + 2 (autotest.rs:118)
usage_too_few(a, i) == Len(a) < i + 2

has_dot_c_last_only(a) ==
    a # <<>> /\ contains(a[Len(a)], <<".","c">>)

\* args.iter().any(|arg| arg.contains(".c"))
has_dot_c(a) ==
    \E k \in 1..Len(a) : contains(a[k], <<".","c">>)

\* cli::run has called run_test and has not got it back
CliRunning == [exited |-> FALSE, code |-> 0, stderr |-> 0]

\* run_test has loaded config.sh and enters the runner named by binary_name,
\* with at most n arguments, the overlay one of cfgs and PATH one of paths
RunStart(n, cfgs, paths) ==
    /\ tool \in {"autotest", "autotest-stage"}
    /\ args \in SeqsUpTo(Tokens, n)
    /\ custom_config \in cfgs
    /\ config_before = custom_config
    /\ file = NoFile
    /\ lineNo = 0
    /\ loadPc = "ok"
    /\ pc = IF tool = "autotest" THEN "RunAutotest" ELSE "ParseArgs"
    /\ idx = 0
    /\ compiler = None
    /\ stage_prefix = <<>>
    /\ command_args = <<>>
    /\ invocations = <<>>
    /\ output = NoOutput
    /\ run_labels = <<>>
    /\ child = NoChild
    /\ result = Running
    /\ env_PATH \in paths
    /\ cli = CliRunning
    /\ first_load = NoFirstLoad

\* config.sh set the session directory; PATH as cli::setup_environment left
\* it for a class with a bin directory
RunInit ==
    RunStart(MaxArgs, {[x \in {K_session} |-> <<"/","w">>]}, {Some(<<"/","b">>)})

\* the same, with or without a session directory, PATH being unset, empty
\* or a search path
PathInit == RunStart(MaxCliArgs, RunConfigs, EnvPaths)

\* run_autotest (autotest.rs:51-98)
RunAutotest ==
    /\ pc = "RunAutotest"
    /\ \E ch \in ChildOutcomes :
         LET sel == select_compiler(args)
         IN  /\ invocations' = Append(invocations,
                    [argv  |-> base_argv(sel.compiler, custom_config)
                                 \o sel.remaining,
                     path_env |-> child_path(env_PATH, custom_config),
                     stdio |-> "inherit"])
             /\ compiler' = Some(sel.compiler)
             /\ command_args' = sel.remaining
             /\ child' = ch
             /\ result' = run_and_propagate_exit_status(ch)
    /\ pc' = "Done"
    /\ UNCHANGED <<tool, args, idx, stage_prefix, output, run_labels>>
    /\ UNCHANGED loadVars
    /\ UNCHANGED procVars

\* run_autotest_stage, argument parsing (autotest.rs:101-131)
ParseArgs ==
    /\ pc = "ParseArgs"
    /\ LET i1 == IF 0 < Len(args) /\ args[1] = T_1091 THEN 1 ELSE 0
           hasComp == i1 < Len(args) /\ args[i1 + 1] \in compiler_options
           i2 == IF hasComp THEN i1 + 1 ELSE i1
       IN  /\ idx' = i2
           /\ compiler' = IF hasComp THEN Some(args[i1 + 1]) ELSE None
           /\ IF usage_too_few(args, i2)
              THEN /\ result' = Err("UsageError")
                   /\ pc' = "Done"
                   /\ UNCHANGED <<stage_prefix, command_args>>
              ELSE /\ stage_prefix' = args[i2 + 1]
                   /\ command_args' = SubSeq(args, i2 + 2, Len(args))
                   /\ IF has_dot_c(args)
                      THEN /\ result' = Err("InvalidArgument")
                           /\ pc' = "Done"
                      ELSE /\ result' = result
                           /\ pc' = "Discover"
    /\ UNCHANGED <<tool, args, invocations, output, run_labels, child>>
    /\ UNCHANGED loadVars
    /\ UNCHANGED procVars

\* compiler.unwrap_or_else(|| "clang".to_string())
chosen_compiler == IF compiler.kind = "Some" THEN compiler.val ELSE T_clang

\* run_autotest_stage, first call and manifest lookup (autotest.rs:159-202)
Discover ==
    /\ pc = "Discover"
    /\ invocations' = Append(invocations,
           [argv  |-> discover_argv(chosen_compiler, custom_config, command_args),
            path_env |-> child_path(env_PATH, custom_config),
            stdio |-> "piped"])
    /\ \E out \in DiscoverOutputs :
         /\ output' = out
         /\ IF ~out.spawned
            THEN result' = Err("SpawnError") /\ pc' = "Done"
            ELSE IF ~status_success(out.status)
            THEN result' = Err("DiscoveryFailed") /\ pc' = "Done"
            ELSE IF ~out.stdout.parsed
            THEN result' = Err("JsonParseError") /\ pc' = "Done"
            ELSE IF lookup_labels(out.stdout.json).kind = "None"
            THEN result' = Err("ManifestShapeError") /\ pc' = "Done"
            ELSE result' = result /\ pc' = "Filter"
    /\ UNCHANGED <<tool, args, idx, compiler, stage_prefix, command_args,
                   run_labels, child>>
    /\ UNCHANGED loadVars
    /\ UNCHANGED procVars

\* run_autotest_stage, label filter (autotest.rs:204-219)
Filter ==
    /\ pc = "Filter"
    /\ LET tests == lookup_labels(output.stdout.json).val
           sel   == filter_labels(tests, stage_prefix)
       IN  /\ run_labels' = sel
           /\ IF sel = <<>>
              THEN result' = Err("NoMatchingTests") /\ pc' = "Done"
              ELSE result' = result /\ pc' = "Execute"
    /\ UNCHANGED <<tool, args, idx, compiler, stage_prefix, command_args,
                   invocations, output, child>>
    /\ UNCHANGED loadVars
    /\ UNCHANGED procVars

\* run_autotest_stage, second call (autotest.rs:221-238)
Execute ==
    /\ pc = "Execute"
    /\ invocations' = Append(invocations,
           [argv  |-> execute_argv(chosen_compiler, custom_config,
                                   command_args, run_labels),
            path_env |-> child_path(env_PATH, custom_config),
            stdio |-> "inherit"])
    /\ \E ch \in ChildOutcomes :
         /\ child' = ch
         /\ result' = run_and_propagate_exit_status(ch)
    /\ pc' = "Done"
    /\ UNCHANGED <<tool, args, idx, compiler, stage_prefix, command_args,
                   output, run_labels>>
    /\ UNCHANGED loadVars
    /\ UNCHANGED procVars

(***************************************************************************)
(* Specifications                                                          *)
(***************************************************************************)
RunIdle ==
    /\ tool = "autotest" /\ args = <<>> /\ pc = "Done" /\ idx = 0
    /\ compiler = None /\ stage_prefix = <<>> /\ command_args = <<>>
    /\ invocations = <<>> /\ output = NoOutput /\ run_labels = <<>>
    /\ child = NoChild /\ result = Running
    /\ env_PATH = None /\ cli = CliRunning /\ first_load = NoFirstLoad

LoadNext ==
    (OpenFile \/ ReadLine \/ EndOfFile) /\ UNCHANGED runVars /\ UNCHANGED procVars

\* a call of load_bash_config, no runner active
LoadInit == LoaderInputs /\ RunIdle

\* the overlay loader on its own
SpecLoad == LoadInit /\ [][LoadNext]_vars

ReloadInit == LoaderInputs /\ RunIdle

ReloadNext ==
    \/ LoadNext
    \/ (LoadAgain /\ UNCHANGED runVars /\ UNCHANGED <<env_PATH, cli>>)

\* the overlay loader called twice in sequence on the same file
SpecReload == ReloadInit /\ [][ReloadNext]_vars

(***************************************************************************)
(* cli::run calling run_test                                               *)
(***************************************************************************)
\* the thread panicked: the process ends with Rust's panic exit code
Panicked == [kind |-> "Panic", err |-> "", code |-> 101]

L_session ==
    <<"public_html_session_directory","=","'","/","w","'">>

\* the config.sh files a whole-process run draws from
CliFiles ==
    {NoFile, FileOf(<<>>), FileOf(<<L_comment, L_session>>),
     FileOf(<<L_a1, L_bad>>), FileOf(<<L_a1, L_alone>>)}

\* cli::run has matched "autotest" or "autotest-stage" and calls run_test
\* with the ClassConfig that ClassConfig::new built (cli.rs:105-119)
CliInit ==
    /\ tool \in {"autotest", "autotest-stage"}
    /\ args \in SeqsUpTo(Tokens, MaxCliArgs)
    /\ file \in CliFiles
    /\ lineNo = 0
    /\ loadPc = "idle"
    /\ custom_config = EmptyMap
    /\ config_before = EmptyMap
    /\ pc = "RunTest"
    /\ idx = 0
    /\ compiler = None
    /\ stage_prefix = <<>>
    /\ command_args = <<>>
    /\ invocations = <<>>
    /\ output = NoOutput
    /\ run_labels = <<>>
    /\ child = NoChild
    /\ result = Running
    /\ env_PATH = Some(<<"/","b">>)
    /\ cli = CliRunning
    /\ first_load = NoFirstLoad

\* run_test: the autotest link exists and resolves (autotest.rs:13-23)
RunTestResolve ==
    /\ pc = "RunTest"
    /\ \E link \in {"missing", "unresolvable", "resolved"} :
         CASE link = "missing" ->
                /\ result' = Err("NotFound") /\ pc' = "Done"
                /\ UNCHANGED loadPc
           [] link = "unresolvable" ->
                /\ result' = Err("ResolutionError") /\ pc' = "Done"
                /\ UNCHANGED loadPc
           [] link = "resolved" ->
                /\ result' = result /\ pc' = "LoadConfig"
                /\ loadPc' = "call"
    /\ UNCHANGED <<file, lineNo, custom_config, config_before>>
    /\ UNCHANGED <<tool, args, idx, compiler, stage_prefix, command_args,
                   invocations, output, run_labels, child>>
    /\ UNCHANGED procVars

\* run_test: config.load_bash_config(config.sh) is running (autotest.rs:30-31)
CliLoad ==
    /\ pc = "LoadConfig"
    /\ (OpenFile \/ ReadLine \/ EndOfFile)
    /\ UNCHANGED runVars
    /\ UNCHANGED procVars

\* run_test: load_bash_config is over; map_err(..)? and the match on
\* binary_name (autotest.rs:30-47).  A panic inside the call unwinds through
\* run_test and cli::run.
RunTestDispatch ==
    /\ pc = "LoadConfig"
    /\ loadPc \in {"ok", "ioerr", "panic"}
    /\ CASE loadPc = "ioerr" ->
              result' = Err("ConfigLoadError") /\ pc' = "Done"
         [] loadPc = "panic" ->
              result' = Panicked /\ pc' = "Done"
         [] loadPc = "ok" ->
              /\ result' = result
              /\ pc' = IF tool = "autotest" THEN "RunAutotest" ELSE "ParseArgs"
    /\ UNCHANGED loadVars
    /\ UNCHANGED <<tool, args, idx, compiler, stage_prefix, command_args,
                   invocations, output, run_labels, child>>
    /\ UNCHANGED procVars

\* cli::run: the match on what run_test returned (cli.rs:119-125); with
\* Ok(_) run returns and the process ends with code 0
CliReport ==
    /\ pc = "Done"
    /\ ~cli.exited
    /\ result.kind \in {"Ok", "Err"}
    /\ cli' = IF result.kind = "Err"
              THEN [exited |-> TRUE, code |-> 1, stderr |-> 1]
              ELSE [exited |-> TRUE, code |-> 0, stderr |-> 0]
    /\ UNCHANGED loadVars
    /\ UNCHANGED runVars
    /\ UNCHANGED <<env_PATH, first_load>>

CliNext ==
    \/ RunTestResolve \/ CliLoad \/ RunTestDispatch
    \/ RunAutotest \/ ParseArgs \/ Discover \/ Filter \/ Execute
    \/ CliReport

\* a whole process run of `<class> autotest ...` or `<class> autotest-stage ...`
SpecCli == CliInit /\ [][CliNext]_vars

Next == RunAutotest \/ ParseArgs \/ Discover \/ Filter \/ Execute

\* one run of autotest or autotest-stage, after config.sh was loaded
Spec == RunInit /\ [][Next]_vars

\* the same runs under every kind of inherited PATH
SpecPath == PathInit /\ [][Next]_vars

(***************************************************************************)
(* Properties                                                              *)
(***************************************************************************)
Staged == tool = "autotest-stage"

\* the invocations that inherit the caller's streams / that capture them
InheritIdx == {i \in 1..Len(invocations) : invocations[i].stdio = "inherit"}
PipedIdx   == {i \in 1..Len(invocations) : invocations[i].stdio = "piped"}

Toolchains == {T_dcc, T_gcc, T_clang}

\* p is a prefix of s, character by character
PrefixOf(p, s) == Len(p) <= Len(s) /\ \A i \in 1..Len(p) : s[i] = p[i]

DotC(tok) == \E i \in 1..(Len(tok) - 1) : tok[i] = "." /\ tok[i + 1] = "c"
AnyDotC   == \E k \in 1..Len(args) : DotC(args[k])

\* the discovery output, read structurally
OutJson       == output.stdout.json
OutIsArray    == OutJson.t = "array" /\ Len(OutJson.a) >= 1
OutHasLabels  ==
    /\ OutIsArray
    /\ OutJson.a[1].t = "object"
    /\ \E e \in 1..Len(OutJson.a[1].o) : OutJson.a[1].o[e].k = "labels"
OutLabels     ==
    OutJson.a[1].o[CHOOSE e \in 1..Len(OutJson.a[1].o) :
                       OutJson.a[1].o[e].k = "labels"].val
OutLabelsIsArray == OutHasLabels /\ OutLabels.t = "array"
OutAllStrings ==
    OutLabelsIsArray /\ \A i \in 1..Len(OutLabels.a) : OutLabels.a[i].t = "string"
\* positions of the manifest whose label is a string starting with the prefix
MatchPos ==
    IF OutLabelsIsArray
    THEN {i \in 1..Len(OutLabels.a) :
            OutLabels.a[i].t = "string" /\ PrefixOf(stage_prefix, OutLabels.a[i].s)}
    ELSE {}
DiscoverOk ==
    output.spawned /\ output.status = ExitCode(0) /\ output.stdout.parsed
DiscoverRan == PipedIdx # {}

\* C1: in a staged run the Execute invocation is issued only as the second
\* invocation, after a Discover invocation that started, exited with
\* success, gave parseable output with `labels`, and whose filtered selection
\* is non-empty; when discovery fails in any of these ways the run ends in
\* Failed with no Execute invocation.
C1_ExecuteOnlyAfterGoodDiscovery ==
    Staged =>
      /\ \A i \in InheritIdx :
           /\ i = 2
           /\ invocations[1].stdio = "piped"
           /\ invocations[1].argv[Len(invocations[1].argv)] = F_print
           /\ DiscoverOk /\ OutHasLabels /\ MatchPos # {}
      /\ (pc = "Done" /\ DiscoverRan
            /\ ~(DiscoverOk /\ OutHasLabels /\ MatchPos # {}))
           => (result.kind = "Err" /\ InheritIdx = {})
      /\ Len(invocations) <= 2

C1_Witness ==
    Staged /\ pc = "Done" /\ Len(invocations) = 2 /\ InheritIdx = {2}

InheritRan == pc = "Done" /\ InheritIdx # {}

\* C2 (as stated): a started inherited-stream child that terminates
\* unsuccessfully makes the process exit with exactly the child's exit code;
\* exit 0 returns success; a child that cannot start returns an error.
C2_ExitCodeAlwaysChilds ==
    InheritRan =>
      /\ (child.spawned /\ child.status # ExitCode(0))
           => (result.kind = "Exit" /\ child.status.kind = "code"
                 /\ result.code = child.status.code)
      /\ (child.spawned /\ child.status = ExitCode(0)) => result = Ok
      /\ ~child.spawned => result.kind = "Err"

\* C2 (amended): a started child that exits with a nonzero code makes the
\* process exit with exactly that code; a started child that ends without an
\* exit code (killed by a signal) makes the process exit with code 1; exit 0
\* returns success; a child that cannot start returns an error.
C2_ExitCodePropagated ==
    InheritRan =>
      /\ (child.spawned /\ child.status.kind = "code" /\ child.status.code # 0)
           => result = Exited(child.status.code)
      /\ (child.spawned /\ child.status.kind = "signal") => result = Exited(1)
      /\ (child.spawned /\ child.status = ExitCode(0)) => result = Ok
      /\ ~child.spawned => result = Err("SpawnError")

C2_Witness ==
    InheritRan /\ child.spawned /\ child.status = ExitCode(3)
      /\ result = Exited(3)

\* the tokens left after the optional course marker and toolchain name
AfterMarker == IF args # <<>> /\ args[1] = T_1091 THEN Tail(args) ELSE args
HasToolchain == AfterMarker # <<>> /\ AfterMarker[1] \in Toolchains
AfterToolchain == IF HasToolchain THEN Tail(AfterMarker) ELSE AfterMarker

ParsedArgs == Staged /\ pc # "ParseArgs"

\* C3 (as stated): every staged argument list with a token containing `.c`
\* fails with InvalidArgument, whatever its length, and invokes nothing.
C3_DotCAlwaysInvalidArgument ==
    (ParsedArgs /\ AnyDotC) =>
      (result = Err("InvalidArgument") /\ invocations = <<>>)

\* C3 (amended): a staged argument list with a token containing `.c` fails
\* with InvalidArgument when at least two tokens remain after the optional
\* course marker and toolchain name, and with UsageError when fewer remain;
\* in both cases nothing is invoked.
C3_DotCRejected ==
    (ParsedArgs /\ AnyDotC) =>
      /\ invocations = <<>>
      /\ pc = "Done"
      /\ result = IF Len(AfterToolchain) >= 2
                  THEN Err("InvalidArgument") ELSE Err("UsageError")

C3_Witness ==
    ParsedArgs /\ AnyDotC /\ result = Err("InvalidArgument")
      /\ DotC(args[1]) /\ Len(args) = 2

FilterReached ==
    Staged /\ (pc = "Filter" \/ pc = "Execute" \/ InheritIdx # {}
                 \/ result = Err("NoMatchingTests"))
ExecuteReached == Staged /\ (pc = "Execute" \/ InheritIdx # {})

\* C4 (as stated): after a successful discovery the run goes on to
\* Filter/Execute only when the output is an array whose element 0 has a
\* `labels` array of strings only; every other shape fails with a
\* manifest-shape error and never reaches Execute.
C4_OnlyStringLabelArrays ==
    (Staged /\ DiscoverRan /\ DiscoverOk) =>
      /\ FilterReached => OutAllStrings
      /\ (pc = "Done" /\ ~OutAllStrings)
           => (result = Err("ManifestShapeError") /\ InheritIdx = {})

\* C4 (amended): after a successful discovery the run fails with a
\* manifest-shape error, never reaching Execute, when the output is not an
\* array, is an empty array, or element 0 has no `labels` field; a `labels`
\* that is not an array counts as an empty manifest (NoMatchingTests, no
\* Execute); non-string elements of a `labels` array are skipped, so the run
\* reaches Execute exactly when some string label starts with the prefix.
C4_ManifestShape ==
    (Staged /\ DiscoverRan /\ DiscoverOk) =>
      /\ ~OutHasLabels
           => (pc = "Done" /\ result = Err("ManifestShapeError")
                 /\ InheritIdx = {})
      /\ (OutHasLabels /\ ~OutLabelsIsArray /\ pc = "Done")
           => (result = Err("NoMatchingTests") /\ InheritIdx = {})
      /\ (OutHasLabels /\ pc = "Done" /\ MatchPos = {})
           => (result = Err("NoMatchingTests") /\ InheritIdx = {})
      /\ (OutHasLabels /\ pc = "Done" /\ MatchPos # {}) => InheritIdx = {2}
      /\ ExecuteReached => (OutLabelsIsArray /\ MatchPos # {})

C4_Witness ==
    /\ Staged /\ pc = "Execute" /\ DiscoverOk /\ OutLabelsIsArray
    /\ \E i \in 1..Len(OutLabels.a) : OutLabels.a[i].t # "string"

FilterDone ==
    Staged /\ (pc = "Execute" \/ InheritIdx # {}
                 \/ result = Err("NoMatchingTests"))

\* the k-th smallest element of a set of positions
KthOf(P, k) == CHOOSE i \in P : Cardinality({j \in P : j <= i}) = k

\* C5: the Filter step's selection is exactly the subsequence of the
\* manifest made of the labels that start with the stage prefix: as many
\* entries as there are matching positions, the k-th entry being the label at
\* the k-th matching position.
C5_FilterIsMatchingSubsequence ==
    FilterDone =>
      /\ Len(run_labels) = Cardinality(MatchPos)
      /\ \A k \in 1..Len(run_labels) :
           run_labels[k] = OutLabels.a[KthOf(MatchPos, k)].s

C5_Witness ==
    /\ FilterDone /\ OutAllStrings /\ Len(OutLabels.a) = 3
    /\ stage_prefix = T_w1
    /\ run_labels = <<LB_w1, LB_w1a>>
    /\ OutLabels.a[2].s = LB_W1a

\* C6: staged argument parsing without a `.c` token: a leading `1091` is
\* consumed, then a toolchain name if one follows (clang otherwise); fewer
\* than two remaining tokens is a UsageError; otherwise the next token is
\* the stage prefix and the tokens after it are the non-empty command tail.
C6_ParseArgs ==
    (ParsedArgs /\ ~AnyDotC) =>
      /\ chosen_compiler = IF HasToolchain THEN AfterMarker[1] ELSE T_clang
      /\ IF Len(AfterToolchain) < 2
         THEN pc = "Done" /\ result = Err("UsageError") /\ invocations = <<>>
         ELSE /\ stage_prefix = AfterToolchain[1]
              /\ command_args = Tail(AfterToolchain)
              /\ command_args # <<>>
              /\ result # Err("UsageError")
              /\ result # Err("InvalidArgument")

C6_Witness ==
    /\ Staged /\ pc = "Discover"
    /\ args = <<T_1091, T_gcc, T_w1, T_x>>
    /\ chosen_compiler = T_gcc /\ stage_prefix = T_w1 /\ command_args = <<T_x>>

\* C7: when a staged run reaches Execute, the Execute argument vector is the
\* Discover argument vector with its trailing `--print_test_names` replaced
\* by `-l` and the filtered labels in filter order; both are python3 -I
\* <script> --exercise_directory <dir> --parameters <string> followed by the
\* command tail, and the stage-prefix token is forwarded in neither.
C7_ExecuteArgvFromDiscover ==
    (Staged /\ Len(invocations) = 2) =>
      LET d == invocations[1].argv
          e == invocations[2].argv
          n == Len(d)
          tail == Tail(AfterToolchain)
      IN  /\ n = 7 + Len(tail) + 1
          /\ d[n] = F_print
          /\ SubSeq(d, 8, n - 1) = tail
          /\ d[1] = <<"python3">> /\ d[2] = <<"-I">> /\ d[3] = autotest_script
          /\ d[4] = <<"--exercise_directory">> /\ d[6] = <<"--parameters">>
          /\ Len(e) = n + Len(run_labels)
          /\ SubSeq(e, 1, n - 1) = SubSeq(d, 1, n - 1)
          /\ e[n] = F_l
          /\ SubSeq(e, n + 1, Len(e)) = run_labels
          /\ Len(run_labels) = Cardinality(MatchPos)

C7_Witness ==
    /\ Staged /\ Len(invocations) = 2
    /\ Len(command_args) = 2 /\ Len(run_labels) = 2

\* ---- overlay loader ----
Lines == file.lines

\* line i of the file is an assignment the loader acts on
IsAssignment(i) ==
    /\ ~is_skipped(Lines[i])
    /\ \E c \in 1..Len(Lines[i]) : Lines[i][c] = "="
KeyOf(i)   == parse_variable_assignment(Lines[i]).name
ValueOf(i) == parse_variable_assignment(Lines[i]).value

\* C8: after a successful load, every key assigned in the file maps to the
\* value of the last assignment line for that key, and the mapping's keys
\* are the keys it had before together with the assigned keys.
C8_LastAssignmentWins ==
    loadPc = "ok" =>
      /\ \A i \in 1..Len(Lines) :
           (IsAssignment(i)
              /\ ~\E j \in (i + 1)..Len(Lines) :
                    IsAssignment(j) /\ KeyOf(j) = KeyOf(i))
             => (KeyOf(i) \in DOMAIN custom_config
                   /\ custom_config[KeyOf(i)] = ValueOf(i))
      /\ DOMAIN custom_config =
           DOMAIN config_before \cup {KeyOf(i) : i \in {j \in 1..Len(Lines) : IsAssignment(j)}}

C8_Witness ==
    /\ loadPc = "ok"
    /\ Lines = <<L_aq, L_a1, L_a2sp>>
    /\ custom_config[K_a] = <<"2">>

\* the lines the loader is to ignore, read off the text of the line
Ignorable(line) ==
    \/ \A c \in 1..Len(line) : line[c] \in {" ", "\t"}
    \/ PrefixOf(<<"#">>, trim(line))
    \/ PrefixOf(<<"e","x","p","o","r","t"," ">>, trim(line))
    \/ PrefixOf(<<"u","n","s","e","t"," ">>, trim(line))
    \/ \A c \in 1..Len(line) : line[c] # "="

\* C9: reading a (decodable) line that is blank, a comment, an export or
\* unset statement, or has no `=`, leaves the mapping as it is and raises no
\* error: the loader goes on to the next line.
C9_IgnoredLinesChangeNothing ==
    [][ (loadPc = "reading" /\ lineNo <= Len(Lines)
           /\ is_valid_utf8(Lines[lineNo]) /\ Ignorable(Lines[lineNo]))
        => (custom_config' = custom_config /\ loadPc' = "reading"
              /\ lineNo' = lineNo + 1) ]_vars

C9_Witness ==
    /\ loadPc = "reading" /\ lineNo = 3
    /\ Lines[1] = L_a1 /\ Lines[2] = L_export
    /\ custom_config # config_before

\* C10: when load_bash_config returns an I/O error the mapping is what it
\* was before the call.
C10_NoPartialMappingOnIoError ==
    loadPc = "ioerr" => custom_config = config_before

\* ---- second sitting ----
SinglePassDone == tool = "autotest" /\ pc = "Done"

\* C13: the Single-Pass Runner uses the first argument as toolchain, and
\* removes exactly that token, when it is one of dcc/gcc/clang; otherwise
\* (the empty list included) the toolchain is clang and every argument is
\* passed through.  The passed-through tokens follow the seven base
\* arguments unchanged and in order, a toolchain name at a later position
\* stays among them, and tokens containing `.c` are accepted.
C13_SelectCompiler ==
    SinglePassDone =>
      LET first == args # <<>> /\ args[1] \in Toolchains
          comp  == IF first THEN args[1] ELSE T_clang
          rest  == IF first THEN SubSeq(args, 2, Len(args)) ELSE args
      IN  /\ Len(invocations) = 1
          /\ invocations[1].argv =
               << <<"python3">>, <<"-I">>, autotest_script,
                  <<"--exercise_directory">>, activities_dir(custom_config),
                  <<"--parameters">>, parameters(comp, custom_config) >> \o rest
          /\ compiler = Some(comp)
          /\ result # Err("InvalidArgument")
          /\ result # Err("UsageError")

C13_Witness ==
    /\ SinglePassDone
    /\ args = <<T_gcc, T_fc, T_gcc>>
    /\ command_args = <<T_fc, T_gcc>>
    /\ compiler = Some(T_gcc)

\* the syntax checker's containing directory, from the overlay value
CheckerDir ==
    (IF K_session \in DOMAIN custom_config
     THEN custom_config[K_session] \o <<"/">> ELSE <<>>)
      \o <<"public/_infra/extern/c_check">>

\* C14: every invocation built by either runner gets as search path the
\* inherited path, `:` and the syntax checker's directory, or that directory
\* alone when there is no inherited path or it is empty; no step changes the
\* calling process's own search path.
C14_ChildPathExtended ==
    /\ [](\A i \in 1..Len(invocations) :
            invocations[i].path_env =
              IF env_PATH.kind = "None" \/ env_PATH.val = <<>>
              THEN CheckerDir
              ELSE env_PATH.val \o <<":">> \o CheckerDir)
    /\ [][env_PATH' = env_PATH]_vars

C14_Witness ==
    /\ Len(invocations) = 2
    /\ env_PATH = Some(<<"/","b">>)
    /\ K_session \in DOMAIN custom_config
    /\ invocations[2].path_env =
         <<"/","b",":","/","w","/","public/_infra/extern/c_check">>

\* what the claim expects of a candidate assignment line
FirstEq(line) ==
    CHOOSE e \in 1..Len(line) :
        line[e] = "=" /\ \A j \in 1..(e - 1) : line[j] # "="
ExpectedKey(line) == trim(SubSeq(line, 1, FirstEq(line) - 1))
RawValue(line)    == trim(SubSeq(line, FirstEq(line) + 1, Len(line)))
IsQuotePair(v) ==
    Len(v) >= 2 /\ v[1] \in {"'", "\""} /\ v[Len(v)] = v[1]
ExpectedValue(line) ==
    IF IsQuotePair(RawValue(line))
    THEN SubSeq(RawValue(line), 2, Len(RawValue(line)) - 1)
    ELSE RawValue(line)
IsCandidate(line) ==
    /\ is_valid_utf8(line)
    /\ ~Ignorable(line)

\* C11: every candidate assignment line the loader has got to is parsed
\* into the trimmed text before the first `=` as key and the trimmed text
\* after it as value, the value without its wrapping quotes exactly when it
\* starts and ends with the same quote character as a pair and verbatim
\* otherwise (a lone quote character included); the parse returns a result
\* and never aborts.
C11_ParseAssignment ==
    /\ loadPc # "panic"
    /\ \A i \in 1..Len(Lines) :
         (i < lineNo /\ IsCandidate(Lines[i]))
           => /\ parse_variable_assignment(Lines[i]).kind = "Some"
              /\ parse_variable_assignment(Lines[i]).name = ExpectedKey(Lines[i])
              /\ parse_variable_assignment(Lines[i]).value = ExpectedValue(Lines[i])

\* C12: once load_bash_config has returned, calling it again on the same
\* file and mapping ends with the mapping the first call left.
C12_LoadIdempotent ==
    (first_load.done /\ loadPc \in {"ok", "ioerr"})
      => custom_config = first_load.map

C12_Witness ==
    /\ first_load.done /\ loadPc = "ok"
    /\ Lines = <<L_a1, L_bdq, L_aq>>
    /\ config_before # EmptyMap
    /\ custom_config[K_a] = <<"x">>
    /\ first_load.map[K_b] = <<"y"," ">>

\* the inherited-stream child started and ended unsuccessfully
ChildFailed ==
    InheritIdx # {} /\ child.spawned /\ child.status # ExitCode(0)

\* C15: every run that fails otherwise than by an unsuccessful
\* inherited-stream child comes back to the CLI layer as an error, for which
\* it prints one message and exits with code 1; a nonzero exit code of the
\* discovery invocation is not the process exit code.
C15_FailuresExitOne ==
    /\ (pc = "Done" /\ result # Ok /\ ~ChildFailed)
         => /\ result.kind = "Err"
            /\ cli.exited => (cli.code = 1 /\ cli.stderr = 1)
    /\ (cli.exited /\ DiscoverRan /\ output.spawned
          /\ output.status # ExitCode(0))
         => (result.kind = "Err" /\ cli.code = 1)

====
